---- MODULE Spec2Model ----
(***************************************************************************)
(* Model of streamlit_app.py (Food Waste Management): the CSV loader       *)
(* (list_csvs, create_db_from_csvs, inspect_db, ensure_data), the query    *)
(* gateway (run_query, run_exec) and the three writing pages (Add Food     *)
(* Listing, Make Claim, Update Claim Status).                              *)
(*                                                                         *)
(* Strings that the code inspects character by character (file names,      *)
(* table names, text inputs) are sequences of one-character strings, so    *)
(* that "x in name", lower(), sorted(), splitext() and int() are computed  *)
(* and not assumed.                                                        *)
(***************************************************************************)
EXTENDS Integers, Sequences, FiniteSets, TLC

VARIABLES
    dir,       \* the repo root: file name -> file content
    dbExists,  \* os.path.exists(DB_PATH)
    store,     \* food_waste.db: table name -> [cols, rows]
    pc,        \* position of the script run: "start", "ready", "stopped"
    msg,       \* (ok, msg) returned by the last ensure_data() / create_db_from_csvs()
    ui,        \* what the last page handler showed: [op, res]
    leaked     \* connections opened by the gateway and not closed by it

vars == <<dir, dbExists, store, pc, msg, ui, leaked>>

----------------------------------------------------------------------------
\* Bounds of the model.

\* most files in the repo root
MaxFiles == 4
\* most rows a table may hold before the pages stop inserting
MaxRows == 2
\* most connections left open before the model stops counting
MaxLeaked == 1

----------------------------------------------------------------------------
\* Strings.

cProvider == <<"p","r","o","v","i","d","e","r">>
cReceiver == <<"r","e","c","e","i","v","e","r">>
cClaim == <<"c","l","a","i","m">>
cFoodList == <<"f","o","o","d","_","l","i","s","t">>
cListing == <<"l","i","s","t","i","n","g">>
cCsv == <<".","c","s","v">>

\* the four tables ensure_data requires
providers == cProvider \o <<"s">>
receivers == cReceiver \o <<"s">>
food_listings == cFoodList \o <<"i","n","g","s">>
claims == cClaim \o <<"s">>

Required == {providers, receivers, food_listings, claims}

\* ASCII codes of the characters the model's strings use
CharCode(c) ==
    CASE c = "." -> 46 [] c = "1" -> 49 [] c = "2" -> 50 [] c = "7" -> 55
      [] c = "C" -> 67 [] c = "_" -> 95
      [] c = "a" -> 97 [] c = "b" -> 98 [] c = "c" -> 99 [] c = "d" -> 100
      [] c = "e" -> 101 [] c = "f" -> 102 [] c = "g" -> 103 [] c = "i" -> 105
      [] c = "l" -> 108 [] c = "m" -> 109 [] c = "n" -> 110 [] c = "o" -> 111
      [] c = "p" -> 112 [] c = "r" -> 114 [] c = "s" -> 115 [] c = "t" -> 116
      [] c = "v" -> 118 [] c = "x" -> 120

\* str.lower(), one character
LowerChar(c) == IF c = "C" THEN "c" ELSE c

\* str.lower()
Lower(s) == [i \in 1..Len(s) |-> LowerChar(s[i])]

\* pat in s
Contains(s, pat) ==
    \E i \in 1..(Len(s) - Len(pat) + 1) : \A j \in 1..Len(pat) : s[i + j - 1] = pat[j]

\* s.endswith(suf)
EndsWith(s, suf) ==
    /\ Len(s) >= Len(suf)
    /\ \A j \in 1..Len(suf) : s[Len(s) - Len(suf) + j] = suf[j]

\* s < t, as Python compares str: by the first character that differs, a proper
\* prefix first
StrLess(s, t) ==
    LET n == IF Len(s) < Len(t) THEN Len(s) ELSE Len(t)
    IN  IF \A i \in 1..n : s[i] = t[i] THEN Len(s) < Len(t)
        ELSE LET i == CHOOSE j \in 1..n : s[j] # t[j] /\ \A k \in 1..(j - 1) : s[k] = t[k]
             IN  CharCode(s[i]) < CharCode(t[i])

\* sorted(S)
RECURSIVE Sorted(_)
Sorted(S) ==
    IF S = {} THEN <<>>
    ELSE LET m == CHOOSE x \in S : \A y \in S \ {x} : StrLess(x, y)
         IN  <<m>> \o Sorted(S \ {m})

\* glob.glob("*.csv"): names ending in .csv that do not start with a dot
GlobCsv(d) == {f \in DOMAIN d : EndsWith(f, cCsv) /\ f[1] # "."}

\* the files in descending order
list_csvs_descending(d) ==
    LET up == Sorted(GlobCsv(d))
    IN  [i \in 1..Len(up) |-> up[Len(up) + 1 - i]]

list_csvs(d) == Sorted(GlobCsv(d))

\* os.path.splitext(f)[0]: f up to its last dot (a leading dot is no extension)
Stem(f) ==
    LET dots == {i \in 2..Len(f) : f[i] = "."}
    IN  IF dots = {} THEN f
        ELSE SubSeq(f, 1, (CHOOSE i \in dots : \A j \in dots : j <= i) - 1)

\* the if/elif chain of create_db_from_csvs
TableFor(f) ==
    LET name == Lower(f)
    IN  IF Contains(name, cFoodList) THEN food_listings
        ELSE IF Contains(name, cProvider) THEN providers
        ELSE IF Contains(name, cReceiver) THEN receivers
        ELSE IF Contains(name, cClaim) THEN claims
        ELSE Stem(f)

----------------------------------------------------------------------------
\* The store.

\* SQL NULL: the value of a column an INSERT does not list
NULL == -1

\* the tables inspect_db() lists
inspect_db(exists, st) == IF ~exists THEN {} ELSE DOMAIN st

\* st with table t set to tab
PutTable(st, t, tab) ==
    [x \in DOMAIN st \cup {t} |-> IF x = t THEN tab ELSE st[x]]

\* if_exists="append" in place of "replace"
to_sql_append(st, tbl, df) ==
    IF tbl \in DOMAIN st
    THEN [st EXCEPT ![tbl].rows = @ \o df.rows]
    ELSE PutTable(st, tbl, [cols |-> df.cols, rows |-> df.rows])

\* df.to_sql(tbl, con, if_exists="replace", index=False) of a parsed file
to_sql(st, tbl, df) == PutTable(st, tbl, [cols |-> df.cols, rows |-> df.rows])

\* st without table t
DropTable(st, t) == [x \in DOMAIN st \ {t} |-> st[x]]

\* where a df.to_sql(..., if_exists="replace") that raises has got to: it has not
\* touched the table, it has dropped the old table, or it has dropped and re-created
\* the table and inserted no row
WriteFailures == {"untouched", "dropped", "emptied"}

\* the store a df.to_sql(...) that raises leaves
to_sql_failed(st, tbl, df, how) ==
    IF how = "untouched" THEN st
    ELSE IF how = "dropped" THEN DropTable(st, tbl)
    ELSE PutTable(st, tbl, [cols |-> df.cols, rows |-> <<>>])

\* the loop of create_db_from_csvs from the i-th file on; how says where a write
\* that raises has got to
RECURSIVE LoadFrom(_, _, _, _, _, _)
LoadFrom(d, csvs, i, st, loaded, how) ==
    IF i > Len(csvs)
    THEN [ok |-> TRUE, failed |-> <<>>, db |-> st, loaded |-> loaded]
    ELSE LET f == csvs[i]
             tbl == TableFor(f)
             df == d[f]
         IN  IF df.fault = "parse"
             THEN [ok |-> FALSE, failed |-> f, db |-> st, loaded |-> <<>>]
             ELSE IF df.fault = "write"
             THEN [ok |-> FALSE, failed |-> f,
                   db |-> to_sql_failed(st, tbl, df, how),
                   loaded |-> <<>>]
             ELSE LoadFrom(d, csvs, i + 1, to_sql(st, tbl, df),
                           Append(loaded, <<f, tbl, Len(df.rows)>>), how)

\* a load that rolls the store back when a file fails
create_db_rolled_back(d, exists, st, how) ==
    LET csvs == list_csvs(d)
        r == LoadFrom(d, csvs, 1, st, <<>>, how)
    IN  IF csvs = <<>>
        THEN [ok |-> FALSE, kind |-> "no_csv", failed |-> <<>>, loaded |-> <<>>,
              missing |-> {}, db |-> st, exists |-> exists]
        ELSE [ok |-> r.ok, kind |-> IF r.ok THEN "loaded" ELSE "failed_to_load",
              failed |-> r.failed, loaded |-> r.loaded, missing |-> {},
              db |-> IF r.ok THEN r.db ELSE st, exists |-> TRUE]

\* create_db_from_csvs(): what it returns (ok, kind of message, the file and the
\* loaded list the message shows) and the store it leaves (db, exists)
create_db_from_csvs(d, exists, st, how) ==
    LET csvs == list_csvs(d)
    IN  IF csvs = <<>>
        THEN [ok |-> FALSE, kind |-> "no_csv", failed |-> <<>>, loaded |-> <<>>,
              missing |-> {}, db |-> st, exists |-> exists]
        ELSE LET r == LoadFrom(d, csvs, 1, st, <<>>, how)
             IN  [ok |-> r.ok, kind |-> IF r.ok THEN "loaded" ELSE "failed_to_load",
                  failed |-> r.failed, loaded |-> r.loaded, missing |-> {},
                  db |-> r.db, exists |-> TRUE]

\* an ensure_data() whose message names all the required tables
ensure_data_names_all(d, exists, st, how) ==
    LET tables == inspect_db(exists, st)
    IN  IF Required \subseteq tables
        THEN [ok |-> TRUE, kind |-> "present", failed |-> <<>>, loaded |-> <<>>,
              missing |-> {}, db |-> st, exists |-> exists]
        ELSE IF list_csvs(d) # <<>>
        THEN create_db_from_csvs(d, exists, st, how)
        ELSE [ok |-> FALSE, kind |-> "missing", failed |-> <<>>, loaded |-> <<>>,
              missing |-> Required, db |-> st, exists |-> exists]

\* ensure_data()
ensure_data(d, exists, st, how) ==
    LET tables == inspect_db(exists, st)
    IN  IF Required \subseteq tables
        THEN [ok |-> TRUE, kind |-> "present", failed |-> <<>>, loaded |-> <<>>,
              missing |-> {}, db |-> st, exists |-> exists]
        ELSE IF list_csvs(d) # <<>>
        THEN create_db_from_csvs(d, exists, st, how)
        ELSE [ok |-> FALSE, kind |-> "missing", failed |-> <<>>, loaded |-> <<>>,
              missing |-> Required \ tables, db |-> st, exists |-> exists]

----------------------------------------------------------------------------
\* The gateway.

\* pd.read_sql_query("SELECT * FROM t") raises when the table does not exist
run_query_raises(st, t) == t \notin DOMAIN st

\* connections a run_query call leaves open: con.close() is in a finally clause
run_query_leak(raises) == 0

\* connections a run_exec call leaves open: con.close() follows cur.execute()
\* with no finally clause
run_exec_leak(raises) == IF raises THEN 1 ELSE 0

\* INSERT INTO t (listed...) raises: no such table, or no such column
insert_raises(st, t, listed) ==
    \/ t \notin DOMAIN st
    \/ ~(listed \subseteq st[t].cols)

\* INSERT INTO t (DOMAIN vals) VALUES (...): unlisted columns are NULL
insert_row(st, t, vals) ==
    LET row == [c \in st[t].cols |-> IF c \in DOMAIN vals THEN vals[c] ELSE NULL]
    IN  [st EXCEPT ![t].rows = Append(@, row)]

\* UPDATE claims SET Status = ? WHERE Claim_ID = ? raises
update_raises(st) ==
    \/ claims \notin DOMAIN st
    \/ ~({"Status", "Claim_ID"} \subseteq st[claims].cols)

\* WHERE Claim_ID = k: NULL equals nothing, not even NULL
where_claim_id(row, k) == row["Claim_ID"] # NULL /\ k # NULL /\ row["Claim_ID"] = k

\* an UPDATE with no WHERE clause
update_status_everywhere(rows, k, s) ==
    [i \in 1..Len(rows) |-> [rows[i] EXCEPT !["Status"] = s]]

\* an UPDATE that keeps the old row and adds the changed one
update_status_adding(rows, k, s) ==
    rows \o SelectSeq([i \in 1..Len(rows) |-> [rows[i] EXCEPT !["Status"] = s]],
                      LAMBDA r : where_claim_id(r, k))

\* UPDATE claims SET Status = s WHERE Claim_ID = k, on the rows of claims
update_status(rows, k, s) ==
    [i \in 1..Len(rows) |->
        IF where_claim_id(rows[i], k) THEN [rows[i] EXCEPT !["Status"] = s] ELSE rows[i]]

----------------------------------------------------------------------------
\* Text inputs.

IsDigit(c) == CharCode(c) >= 48 /\ CharCode(c) <= 57

\* int(s) raises ValueError
int_raises(s) == s = <<>> \/ \E i \in 1..Len(s) : ~IsDigit(s[i])

\* int(s)
RECURSIVE int(_)
int(s) == IF s = <<>> THEN 0 ELSE 10 * int(SubSeq(s, 1, Len(s) - 1)) + (CharCode(s[Len(s)]) - 48)

\* what a user types in a st.text_input
TextInputs == {<<>>, <<"7">>, <<"1","2">>, <<"x">>}

\* datetime.now()
Instants == {1, 2}

\* the options of the "New status" selectbox
Statuses == {"Completed", "Cancelled", "Pending"}

----------------------------------------------------------------------------
\* Files and stores the runs start from.

ClaimCols == {"Claim_ID", "Food_ID", "Receiver_ID", "Status", "Timestamp"}
ListingCols == {"Food_ID", "Food_Name", "Quantity", "Expiry_Date", "Provider_ID",
                "Provider_Type", "Location", "Food_Type", "Meal_Type"}
PersonCols == {"Name", "City"}

ClaimRow(id, food, recv, status, ts) ==
    [Claim_ID |-> id, Food_ID |-> food, Receiver_ID |-> recv, Status |-> status,
     Timestamp |-> ts]

ListingRow(id) ==
    [Food_ID |-> id, Food_Name |-> "rice", Quantity |-> 5, Expiry_Date |-> 3,
     Provider_ID |-> 1, Provider_Type |-> NULL, Location |-> "Delhi",
     Food_Type |-> "Vegan", Meal_Type |-> "Lunch"]

PersonRow(name) == [Name |-> name, City |-> "Delhi"]

CsvClaims == [fault |-> "none", cols |-> ClaimCols,
              rows |-> <<ClaimRow(1, 1, 7, "Pending", 1)>>]
CsvListings == [fault |-> "none", cols |-> ListingCols,
                rows |-> <<ListingRow(1), ListingRow(2)>>]
CsvPeople == [fault |-> "none", cols |-> PersonCols, rows |-> <<PersonRow("A Co")>>]
CsvEmpty == [fault |-> "none", cols |-> ClaimCols, rows |-> <<>>]
\* pd.read_csv raises on it
CsvUnparsable == [fault |-> "parse", cols |-> {}, rows |-> <<>>]
\* pd.read_csv parses it and df.to_sql raises on it
CsvUnwritable == [fault |-> "write", cols |-> ClaimCols,
                  rows |-> <<ClaimRow(2, 2, 7, "Completed", 1)>>]

CsvContents == {CsvClaims, CsvListings, CsvUnparsable, CsvUnwritable}

f_providers == providers \o cCsv
f_receivers == receivers \o cCsv
f_food_listings == food_listings \o cCsv
f_claims == claims \o cCsv
f_listings == cListing \o <<"s">> \o cCsv
f_Claims_provider == <<"C","l","a","i","m","s","_">> \o cProvider \o cCsv
f_notes == <<"n","o","t","e","s",".","t","x","t">>

CsvNames == {f_providers, f_receivers, f_food_listings, f_claims, f_listings,
             f_Claims_provider}

NoTables == [t \in {} |-> [cols |-> {}, rows |-> <<>>]]

t_old == <<"o","l","d">>

\* a store left by an earlier load: old claims and a table of its own
StaleStore ==
    PutTable(PutTable(NoTables, claims,
                      [cols |-> ClaimCols, rows |-> <<ClaimRow(2, 1, 7, "Cancelled", 1)>>]),
             t_old, [cols |-> PersonCols, rows |-> <<>>])

\* a store an earlier load left with the four tables
FullStore ==
    [t \in Required |->
        IF t = claims THEN [cols |-> ClaimCols, rows |-> <<ClaimRow(1, 1, 7, "Pending", 1)>>]
        ELSE IF t = food_listings THEN [cols |-> ListingCols, rows |-> <<ListingRow(1)>>]
        ELSE [cols |-> PersonCols, rows |-> <<PersonRow("A Co")>>]]

\* a repo root: the files given and a text file
DirWith(files) == [f \in DOMAIN files \cup {f_notes} |->
                      IF f = f_notes THEN CsvUnparsable ELSE files[f]]

\* the repo roots: a text file and up to MaxFiles csv files
Dirs ==
    {DirWith(files) :
        files \in UNION {[D -> CsvContents] :
                            D \in {S \in SUBSET CsvNames : Cardinality(S) <= MaxFiles}}}

NoMsg == [ok |-> FALSE, kind |-> "none", failed |-> <<>>, loaded |-> <<>>, missing |-> {}]
NoUi == [op |-> "none", res |-> "none"]

MsgOf(r) == [ok |-> r.ok, kind |-> r.kind, failed |-> r.failed, loaded |-> r.loaded,
             missing |-> r.missing]

----------------------------------------------------------------------------
\* The script run: ensure_data(), then the page the sidebar selects.

\* lines 93-99: ensure_data() and the st.stop() gate
EnsureData ==
    /\ pc = "start"
    /\ \E how \in WriteFailures :
          LET r == ensure_data(dir, dbExists, store, how)
          IN  /\ store' = r.db
              /\ dbExists' = r.exists
              /\ msg' = MsgOf(r)
              /\ pc' = IF r.ok THEN "ready" ELSE "stopped"
    /\ UNCHANGED <<dir, ui, leaked>>

\* a direct call of create_db_from_csvs()
CreateDbFromCsvs ==
    /\ pc = "start"
    /\ \E how \in WriteFailures :
          LET r == create_db_from_csvs(dir, dbExists, store, how)
          IN  /\ store' = r.db
              /\ dbExists' = r.exists
              /\ msg' = MsgOf(r)
    /\ UNCHANGED <<dir, pc, ui, leaked>>

\* the user refreshes the stopped app
Refresh ==
    /\ pc = "stopped"
    /\ pc' = "start"
    /\ UNCHANGED <<dir, dbExists, store, msg, ui, leaked>>

\* "Dashboard / Filters": food_listings is read in a try that ends in st.stop(),
\* the other three tables are read outside it
Dashboard ==
    /\ pc = "ready"
    /\ pc' = "start"
    /\ ui' = [op |-> "dashboard",
              res |-> IF run_query_raises(store, food_listings) THEN "error"
                      ELSE IF \E t \in Required : run_query_raises(store, t)
                      THEN "exception" ELSE "shown"]
    /\ leaked' = leaked + run_query_leak(\E t \in Required : run_query_raises(store, t))
    /\ dbExists' = TRUE
    /\ UNCHANGED <<dir, store, msg>>

\* the tables the fifteen predefined queries read
QueryTables ==
    {{providers}, {food_listings}, {claims}, {providers, receivers},
     {claims, receivers}, {food_listings, claims}, {food_listings, providers},
     {claims, food_listings, providers}, {claims, receivers, food_listings}}

\* "Run SQL Queries (15+)": one run_query call, not in a try
RunSqlQueries ==
    /\ pc = "ready"
    /\ pc' = "start"
    /\ \E q \in QueryTables :
          /\ ui' = [op |-> "run_sql",
                    res |-> IF \E t \in q : run_query_raises(store, t)
                            THEN "exception" ELSE "shown"]
          /\ leaked' = leaked + run_query_leak(\E t \in q : run_query_raises(store, t))
    /\ dbExists' = TRUE
    /\ UNCHANGED <<dir, store, msg>>

\* "Show Tables": four run_query calls, each in a try
ShowTables ==
    /\ pc = "ready"
    /\ pc' = "start"
    /\ ui' = [op |-> "show_tables",
              res |-> IF \E t \in Required : run_query_raises(store, t)
                      THEN "error" ELSE "shown"]
    /\ leaked' = leaked + run_query_leak(\E t \in Required : run_query_raises(store, t))
    /\ dbExists' = TRUE
    /\ UNCHANGED <<dir, store, msg>>

\* the tuple Add Food Listing passes to its INSERT (lines 249-251)
listing_values(provider_id) ==
    [Food_Name |-> "rice", Quantity |-> 1, Expiry_Date |-> 3,
     Provider_ID |-> IF provider_id = <<>> THEN NULL ELSE int(provider_id),
     Provider_Type |-> NULL, Location |-> "Delhi", Food_Type |-> "Vegan",
     Meal_Type |-> "Lunch"]

\* "Add Food Listing", the form submitted
AddFoodListing ==
    /\ pc = "ready"
    /\ \E provider_id \in TextInputs :
          LET bad == provider_id # <<>> /\ int_raises(provider_id)
              vals == listing_values(provider_id)
              raises == ~bad /\ insert_raises(store, food_listings, DOMAIN vals)
              done == ~bad /\ ~raises
          IN  /\ leaked + run_exec_leak(raises) <= MaxLeaked
              /\ done => Len(store[food_listings].rows) < MaxRows
              /\ store' = IF done THEN insert_row(store, food_listings, vals) ELSE store
              /\ ui' = [op |-> "add_listing", res |-> IF done THEN "success" ELSE "error"]
              /\ leaked' = leaked + run_exec_leak(raises)
    /\ pc' = "start"
    /\ dbExists' = TRUE
    /\ UNCHANGED <<dir, msg>>

\* a Make Claim that takes the status from the receiver input
claim_values_status_input(pick, receiver_id, ts) ==
    [Food_ID |-> pick, Receiver_ID |-> int(receiver_id),
     Status |-> IF int(receiver_id) = 7 THEN "Completed" ELSE "Pending",
     Timestamp |-> ts]

\* the tuple Make Claim passes to its INSERT (lines 268-269)
claim_values(pick, receiver_id, ts) ==
    [Food_ID |-> pick, Receiver_ID |-> int(receiver_id), Status |-> "Pending",
     Timestamp |-> ts]

\* the Food_ID column of food_listings, the options of "Pick Food_ID"
FoodIds(st) == {st[food_listings].rows[i]["Food_ID"] : i \in 1..Len(st[food_listings].rows)}

\* "Make Claim", with "Submit Claim" pressed when the page gets that far
MakeClaim ==
    /\ pc = "ready"
    /\ IF run_query_raises(store, food_listings)
       THEN /\ ui' = [op |-> "make_claim", res |-> "exception"]
            /\ leaked' = leaked + run_query_leak(TRUE)
            /\ store' = store
       ELSE IF store[food_listings].rows = <<>>
       THEN /\ ui' = [op |-> "make_claim", res |-> "info"]
            /\ UNCHANGED <<store, leaked>>
       ELSE IF "Food_ID" \notin store[food_listings].cols
       THEN /\ ui' = [op |-> "make_claim", res |-> "exception"]
            /\ UNCHANGED <<store, leaked>>
       ELSE \E pick \in FoodIds(store), receiver_id \in TextInputs, ts \in Instants :
               LET bad == pick = NULL \/ int_raises(receiver_id)
                   vals == claim_values(pick, receiver_id, ts)
                   raises == ~bad /\ insert_raises(store, claims, DOMAIN vals)
                   done == ~bad /\ ~raises
               IN  /\ leaked + run_exec_leak(raises) <= MaxLeaked
                   /\ done => Len(store[claims].rows) < MaxRows
                   /\ store' = IF done THEN insert_row(store, claims, vals) ELSE store
                   /\ ui' = [op |-> "make_claim", res |-> IF done THEN "success" ELSE "error"]
                   /\ leaked' = leaked + run_exec_leak(raises)
    /\ pc' = "start"
    /\ dbExists' = TRUE
    /\ UNCHANGED <<dir, msg>>

\* the Claim_ID column of claims, the options of the "Claim_ID" selectbox
ClaimIds(st) ==
    IF claims \in DOMAIN st /\ "Claim_ID" \in st[claims].cols
    THEN {st[claims].rows[i]["Claim_ID"] : i \in 1..Len(st[claims].rows)}
    ELSE {}

\* what the Update button does to the store (line 285)
update_claim(st, claim_id, new_status) ==
    [st EXCEPT ![claims].rows = update_status(@, claim_id, new_status)]

\* the Update button of "Update Claim Status" with these two selections
UpdateClaim(claim_id, new_status) ==
    /\ pc = "ready"
    /\ ~run_query_raises(store, claims)
    /\ store[claims].rows # <<>>
    /\ "Claim_ID" \in store[claims].cols
    /\ claim_id \in ClaimIds(store)
    /\ leaked + run_exec_leak(update_raises(store)) <= MaxLeaked
    /\ store' = IF update_raises(store) THEN store
                ELSE update_claim(store, claim_id, new_status)
    /\ ui' = [op |-> "update_claim",
              res |-> IF update_raises(store) THEN "error" ELSE "success"]
    /\ leaked' = leaked + run_exec_leak(update_raises(store))
    /\ pc' = "start"
    /\ dbExists' = TRUE
    /\ UNCHANGED <<dir, msg>>

\* "Update Claim Status" when it cannot offer the button: claims cannot be read
\* (uncaught), is empty (st.info), or has no Claim_ID column (uncaught KeyError)
UpdateClaimNothing ==
    /\ pc = "ready"
    /\ IF run_query_raises(store, claims) THEN TRUE
       ELSE store[claims].rows = <<>> \/ "Claim_ID" \notin store[claims].cols
    /\ ui' = [op |-> "update_claim",
              res |-> IF run_query_raises(store, claims) THEN "exception"
                      ELSE IF store[claims].rows = <<>> THEN "info" ELSE "exception"]
    /\ leaked' = leaked + run_query_leak(run_query_raises(store, claims))
    /\ pc' = "start"
    /\ dbExists' = TRUE
    /\ UNCHANGED <<dir, store, msg>>

\* "Update Claim Status"
UpdateClaimStatus ==
    \/ UpdateClaimNothing
    \/ \E claim_id \in ClaimIds(store), new_status \in Statuses :
          UpdateClaim(claim_id, new_status)

----------------------------------------------------------------------------
\* Specifications.

NoFiles == [f \in {} |-> CsvUnparsable]

\* the repo roots the app is run in
AppDirs ==
    {\* no csv file
     DirWith(NoFiles),
     \* the four csv files
     DirWith([f \in {f_providers, f_receivers, f_food_listings, f_claims} |->
                 IF f = f_food_listings THEN CsvListings
                 ELSE IF f = f_claims THEN CsvClaims ELSE CsvPeople]),
     \* no file for receivers, and two files for providers
     DirWith([f \in {f_Claims_provider, f_providers, f_food_listings, f_claims} |->
                 IF f = f_food_listings THEN CsvListings
                 ELSE IF f = f_claims THEN CsvClaims
                 ELSE IF f = f_providers THEN CsvPeople ELSE CsvEmpty]),
     \* listings only
     DirWith([f \in {f_food_listings} |-> CsvListings]),
     \* the four csv files, claims.csv without the columns of a claim
     DirWith([f \in {f_providers, f_receivers, f_food_listings, f_claims} |->
                 IF f = f_food_listings THEN CsvListings ELSE CsvPeople])}

InitCommon ==
    /\ pc = "start"
    /\ msg = NoMsg
    /\ ui = NoUi
    /\ leaked = 0

\* the app: every script run is ensure_data() and then one page
Init ==
    /\ InitCommon
    /\ dir \in AppDirs
    /\ \/ dbExists = FALSE /\ store = NoTables
       \/ dbExists = TRUE /\ store \in {FullStore, StaleStore}

Next ==
    \/ EnsureData
    \/ Refresh
    \/ Dashboard
    \/ ShowTables
    \/ RunSqlQueries
    \/ AddFoodListing
    \/ MakeClaim
    \/ UpdateClaimStatus

Spec == Init /\ [][Next]_vars

\* the loader alone, called on every repo root of up to MaxFiles csv files
InitLoader ==
    /\ InitCommon
    /\ dir \in Dirs
    /\ \/ dbExists = FALSE /\ store = NoTables
       \/ dbExists = TRUE /\ store = StaleStore

NextLoader ==
    \/ EnsureData
    \/ CreateDbFromCsvs

SpecLoader == InitLoader /\ [][NextLoader]_vars

----------------------------------------------------------------------------
\* Properties.

\* a step from the start of a script run: ensure_data(), or a direct call of
\* create_db_from_csvs(); no other action is enabled there
LoadStep == pc = "start"

\* the tables inspect_db() would list in the current state
TablesNow == IF dbExists THEN DOMAIN store ELSE {}

\* the last file of F that maps to table t
LastFor(t, F) ==
    CHOOSE f \in F : TableFor(f) = t /\ \A g \in F : TableFor(g) = t => ~StrLess(f, g)

\* the names that select each table, as the specification lists them
C1Patterns(t) ==
    IF t = providers THEN {cProvider}
    ELSE IF t = receivers THEN {cReceiver}
    ELSE IF t = food_listings THEN {cListing, cFoodList}
    ELSE {cClaim}

\* the ways to match the four files of d to the four tables by those names
C1Matchings(d) ==
    IF Cardinality(GlobCsv(d)) # 4 THEN {}
    ELSE {m \in [Required -> GlobCsv(d)] :
            /\ \A t, u \in Required : t # u => m[t] # m[u]
            /\ \A t \in Required : \E p \in C1Patterns(t) : Contains(Lower(m[t]), p)}

\* C1 as claimed: four files, one name containing "provider", one "receiver", one
\* "listing" or "food_list", one "claim": a successful load leaves exactly the four
\* tables, each with as many rows as the file matched to it.
C1AsClaimed ==
    [][(LoadStep /\ msg'.kind = "loaded") =>
          \A m \in C1Matchings(dir) :
             /\ DOMAIN store' = Required
             /\ \A t \in Required : Len(store'[t].rows) = Len(dir[m[t]].rows)]_vars

\* the table a file name selects: the first of "food_list", "provider", "receiver",
\* "claim" that the lower-cased name contains (<<>>: none of them)
C1Rule(f) ==
    IF Contains(Lower(f), cFoodList) THEN food_listings
    ELSE IF Contains(Lower(f), cProvider) THEN providers
    ELSE IF Contains(Lower(f), cReceiver) THEN receivers
    ELSE IF Contains(Lower(f), cClaim) THEN claims
    ELSE <<>>

\* four files that the rule sends one to each of the four tables
C1FourFiles(d) ==
    /\ Cardinality(GlobCsv(d)) = 4
    /\ {C1Rule(f) : f \in GlobCsv(d)} = Required

\* C1 as amended: four files that the first-match rule ("food_list", then
\* "provider", "receiver", "claim", on the lower-cased name) sends one to each of the
\* four tables, loaded into a store that holds no other table: a successful load
\* leaves exactly the four tables, each with as many rows as the file sent to it.
C1LoadsFourTables ==
    [][(LoadStep /\ msg'.kind = "loaded" /\ C1FourFiles(dir) /\ TablesNow \subseteq Required) =>
          /\ DOMAIN store' = Required
          /\ \A f \in GlobCsv(dir) : Len(store'[C1Rule(f)].rows) = Len(dir[f].rows)]_vars

\* a load of four such files has succeeded; one of them names two patterns
C1Witness ==
    /\ msg.kind = "loaded"
    /\ C1FourFiles(dir)
    /\ f_Claims_provider \in DOMAIN dir
    /\ DOMAIN store = Required
    /\ Len(store[providers].rows) = Len(dir[f_Claims_provider].rows)

\* C2 as claimed: when ensure_data() reports ready the store holds the four required
\* tables.
C2ReadyHasRequired == pc = "ready" => (dbExists /\ Required \subseteq DOMAIN store)

\* the load stopped at file bad, the first file that cannot be parsed or written,
\* and the message names it; before are the files sorted before bad
C3NamesFile(bad, before) ==
    /\ msg'.ok = FALSE
    /\ bad \in GlobCsv(dir)
    /\ dir[bad].fault # "none"
    /\ \A f \in before : dir[f].fault = "none"

\* table t holds the rows of the last of the files before the failing one that
\* maps to it
C3Kept(t, before) ==
    /\ t \in DOMAIN store'
    /\ store'[t].rows = dir[LastFor(t, before)].rows

\* no file after the failing one is loaded: a table that no file up to the failing
\* one maps to is as it was, and no such table appears
C3NoneAfter(bad, before) ==
    \A t \in (DOMAIN store \cup DOMAIN store') \ {TableFor(f) : f \in before \cup {bad}} :
       t \in DOMAIN store /\ t \in DOMAIN store' /\ store'[t] = store[t]

\* C3 as claimed: when the k-th file fails the message names it, every table written
\* from files 1..k-1 holds the rows loaded from them, and no later file is loaded.
C3AsClaimed ==
    [][(LoadStep /\ msg'.kind = "failed_to_load") =>
          LET bad == msg'.failed
              before == {f \in GlobCsv(dir) : StrLess(f, bad)}
          IN  /\ C3NamesFile(bad, before)
              /\ \A f \in before : C3Kept(TableFor(f), before)
              /\ C3NoneAfter(bad, before)]_vars

\* the table the failing file maps to is as the files before it left it, or is
\* dropped, or is left with no row
C3FailedTable(bad, before) ==
    LET t == TableFor(bad)
    IN  \/ t \notin DOMAIN store'
        \/ t \in DOMAIN store' /\ store'[t].rows = <<>>
        \/ IF t \in {TableFor(f) : f \in before} THEN C3Kept(t, before)
           ELSE IF t \in DOMAIN store THEN t \in DOMAIN store' /\ store'[t] = store[t]
           ELSE t \notin DOMAIN store'

\* C3 as amended: when the k-th file fails the message names it, every table written
\* from files 1..k-1 other than the table the k-th file maps to holds the rows
\* loaded from them, the k-th file's table is as files 1..k-1 left it, or is
\* dropped, or has no row, and no later file is loaded.
C3PartialLoad ==
    [][(LoadStep /\ msg'.kind = "failed_to_load") =>
          LET bad == msg'.failed
              before == {f \in GlobCsv(dir) : StrLess(f, bad)}
          IN  /\ C3NamesFile(bad, before)
              /\ \A f \in before : TableFor(f) # TableFor(bad) => C3Kept(TableFor(f), before)
              /\ C3FailedTable(bad, before)
              /\ C3NoneAfter(bad, before)]_vars

\* a load has failed at its second or a later file, with a file after it, and the
\* table of the first file holds that file's rows
C3Witness ==
    /\ msg.kind = "failed_to_load"
    /\ \E f, g \in GlobCsv(dir) :
          /\ StrLess(f, msg.failed)
          /\ StrLess(msg.failed, g)
          /\ TableFor(f) # TableFor(msg.failed)
          /\ TableFor(f) \in DOMAIN store
          /\ store[TableFor(f)].rows = dir[f].rows
          /\ dir[f].rows # <<>>

\* C4: with a required table missing and no csv file, ensure_data() reports unready,
\* leaves the store as it was, and its message names exactly the missing required
\* tables: all four when there is no store file.
C4MissingPrerequisite ==
    [][(EnsureData /\ ~(Required \subseteq TablesNow) /\ GlobCsv(dir) = {}) =>
          /\ msg'.ok = FALSE
          /\ pc' = "stopped"
          /\ store' = store
          /\ dbExists' = dbExists
          /\ msg'.kind = "missing"
          /\ msg'.missing = {t \in Required : t \notin TablesNow}
          /\ (~dbExists => msg'.missing = Required)]_vars

\* ensure_data() has refused a store that holds one of the required tables
C4Witness ==
    /\ pc = "stopped"
    /\ msg.kind = "missing"
    /\ GlobCsv(dir) = {}
    /\ dbExists
    /\ claims \in DOMAIN store
    /\ msg.missing = Required \ {claims}

\* C5: the row a Make Claim submission inserts has Status "Pending", whatever
\* Food_ID is picked and whatever Receiver_ID is typed.
C5InsertsPending ==
    [][(MakeClaim /\ store' # store) =>
          /\ Len(store'[claims].rows) = Len(store[claims].rows) + 1
          /\ store'[claims].rows[Len(store'[claims].rows)]["Status"] = "Pending"]_vars

\* a claim has been submitted for receiver 7
C5Witness ==
    /\ ui = [op |-> "make_claim", res |-> "success"]
    /\ claims \in DOMAIN store
    /\ \E i \in 1..Len(store[claims].rows) :
          /\ store[claims].rows[i]["Claim_ID"] = NULL
          /\ store[claims].rows[i]["Receiver_ID"] = 7

\* what pressing Update with "Completed" does to a store
C6Completed(st, k) ==
    IF update_raises(st) THEN st ELSE update_claim(st, k, "Completed")

\* C6: after Update has set a claim to "Completed", setting it to "Completed" again
\* leaves the store as it is.
C6CompletedIdempotent ==
    [][\A k \in ClaimIds(store) :
          UpdateClaim(k, "Completed") => C6Completed(store', k) = store']_vars

\* a claim has been set to "Completed"
C6Witness ==
    /\ ui = [op |-> "update_claim", res |-> "success"]
    /\ claims \in DOMAIN store
    /\ \E i \in 1..Len(store[claims].rows) :
          /\ store[claims].rows[i]["Status"] = "Completed"
          /\ store[claims].rows[i]["Claim_ID"] = 1

\* C7 as claimed: no connection the gateway opened is left open when its call ends.
C7NoConnectionLeft == leaked = 0

\* the rows and columns of the last csv file that maps to table t
C8LastFile(t) == dir[LastFor(t, GlobCsv(dir))]

\* C8: after a successful load every table a csv file maps to holds exactly the
\* rows of the last such file in sorted order, whatever it held before.
C8ReplacesTables ==
    [][(LoadStep /\ msg'.kind = "loaded") =>
          \A f \in GlobCsv(dir) :
             /\ TableFor(f) \in DOMAIN store'
             /\ store'[TableFor(f)].rows = C8LastFile(TableFor(f)).rows
             /\ store'[TableFor(f)].cols = C8LastFile(TableFor(f)).cols]_vars

\* a load has replaced the claims table after a Make Claim submission, and providers
\* holds the rows of the later of its two files
C8Witness ==
    /\ pc = "ready"
    /\ msg.kind = "loaded"
    /\ ui = [op |-> "make_claim", res |-> "success"]
    /\ {f_Claims_provider, f_providers, f_claims} \subseteq DOMAIN dir
    /\ store[claims].rows = dir[f_claims].rows
    /\ store[providers].rows = dir[f_providers].rows
    /\ dir[f_providers].rows # dir[f_Claims_provider].rows

\* row r with its Status set to s
C9WithStatus(r, s) == [r EXCEPT !["Status"] = s]

\* C9: Update with claim id k and status s leaves every table but claims as it was,
\* leaves every claims row whose Claim_ID is not k as it was, and changes nothing but
\* the Status of the others.
C9UpdateFrame ==
    [][\A k \in ClaimIds(store), s \in Statuses :
          UpdateClaim(k, s) =>
             /\ DOMAIN store' = DOMAIN store
             /\ \A t \in DOMAIN store : t # claims => store'[t] = store[t]
             /\ store'[claims].cols = store[claims].cols
             /\ Len(store'[claims].rows) = Len(store[claims].rows)
             /\ \A i \in 1..Len(store[claims].rows) :
                   LET old == store[claims].rows[i]
                       new == store'[claims].rows[i]
                   IN  IF old["Claim_ID"] = k
                       THEN new = C9WithStatus(old, new["Status"])
                       ELSE new = old]_vars

\* an Update has changed one of two claims
C9Witness ==
    /\ ui = [op |-> "update_claim", res |-> "success"]
    /\ claims \in DOMAIN store
    /\ \E i, j \in 1..Len(store[claims].rows) :
          /\ store[claims].rows[i]["Claim_ID"] # store[claims].rows[j]["Claim_ID"]
          /\ store[claims].rows[i]["Status"] = "Cancelled"
          /\ store[claims].rows[j]["Status"] = "Pending"

\* C10 as claimed: the row a Make Claim submission inserts has a Claim_ID that is
\* set and that no other claims row has.
C10ClaimIdSetAndUnique ==
    [][(MakeClaim /\ store' # store) =>
          LET rows == store'[claims].rows
              n == Len(rows)
          IN  /\ rows[n]["Claim_ID"] # NULL
              /\ \A i \in 1..(n - 1) : rows[i]["Claim_ID"] # rows[n]["Claim_ID"]]_vars

====
